---- MODULE Spec2Model ----
(***************************************************************************)
(* The asynchronous file-translation pipeline of the translation backend   *)
(* (src/backend/test-deployment.sh, the Express/Bull server from line 128):*)
(* the upload handler, the Bull queue with its retry policy, the worker    *)
(* (processSingleFile / processZip), the 'failed' observer, the in-memory  *)
(* fileStatus map, the download endpoint and the hourly sweep of the       *)
(* translated folder.                                                      *)
(*                                                                         *)
(* One action is one turn of the Node event loop: the code between two     *)
(* awaits runs atomically, and other handlers interleave only at an await  *)
(* (mammoth, PDFDocument.load, the axios call, Bull's Redis round trips).  *)
(***************************************************************************)
EXTENDS Integers, Sequences, FiniteSets, TLC

VARIABLES
    now,         \* the last value Date.now() returned (milliseconds)
    uploadsLeft, \* uploads the environment may still send
    fileStatus,  \* const fileStatus = {}: fileId -> status record
    disk,        \* the uploads/, translated/ and temp/ folders: path -> content
    jobs,        \* the Bull jobs of fileQueue, in the order they were added
    wait,        \* fileQueue's wait list (FIFO of job numbers)
    worker,      \* the single worker of fileQueue.process: its position and locals
                 \* (log, calls, translations, unlinks, done and source record what the
                 \* attempt did and read)
    statusWrites, \* the assignments to a record's status made by the last turn, in order
    mtime,       \* the modification time of each file of the translated/ folder
    response,    \* the HTTP response the last turn sent, if it sent one
    cycle,       \* the run of cleanupTranslatedFolder the last turn made, if it made one
    client       \* the web client (page.tsx): its React state, the request of
                 \* handleSubmit in flight, the chains of checkStatus (a fetch in
                 \* flight or a timer set), and what the last events did

vars == <<now, uploadsLeft, fileStatus, disk, jobs, wait, worker, statusWrites,
          mtime, response, cycle, client>>

-----------------------------------------------------------------------------
(* Bounds of the model *)

MaxTime == 2
MaxUploads == 2
MaxEntries == 3

MaxHours == 2

(* attempts: 3 of fileQueue.add *)
Attempts == 3

(* const oneHourInMs = 60 * 60 * 1000 *)
oneHourInMs == 3600000

-----------------------------------------------------------------------------
(* JavaScript objects as functions with a variable domain *)

Put(f, k, v) == [x \in DOMAIN f \cup {k} |-> IF x = k THEN v ELSE f[x]]

Remove(f, k) == [x \in DOMAIN f \ {k} |-> f[x]]

(* { ...r, ...u } *)
Merge(r, u) == [k \in DOMAIN r \cup DOMAIN u |-> IF k \in DOMAIN u THEN u[k] ELSE r[k]]

(* !text || text.trim() === '' : a text is a sequence of words *)
Blank(text) == \A i \in 1..Len(text) : text[i] \in {"", " "}

-----------------------------------------------------------------------------
(* Names and paths *)

UPLOAD_FOLDER == "uploads"
TRANSLATED_FOLDER == "translated"
TEMP_FOLDER == "temp"

(* String.prototype.toLowerCase on the extensions of the model *)
toLowerCase(ext) == CASE ext = ".TXT" -> ".txt" [] OTHER -> ext

(* path.extname(name).toLowerCase() *)
extname(name) == toLowerCase(name.ext)

(* path.basename(name, ext): the extension is cut only when the name ends with
   exactly ext (the comparison is case-sensitive) *)
basename(name, ext) == IF name.ext = ext THEN <<name.base>> ELSE <<name.base, name.ext>>

(* originalname.endsWith('.zip') *)
isZipFile(name) == name.ext = ".zip"

(* `${basename}_translated_to_${targetLanguage}${fileExtension}` *)
translatedFilename(name, targetLanguage) ==
    [stem |-> basename(name, extname(name)), lang |-> targetLanguage, ext |-> extname(name)]

(* multer diskStorage: uploads/`${Date.now()}-${file.originalname}` *)
uploadPath(stamp, name) == [dir |-> UPLOAD_FOLDER, stamp |-> stamp, name |-> name]

(* the error messages, as sequences of their parts *)
ENOENT == <<"ENOENT: no such file or directory">>
ErrDocxEmpty == <<"Failed to extract text from DOCX file">>
ErrCorrupt == <<"Could not parse the document">>
ErrUnsupported(ext) == <<"Unsupported file format: ", ext>>
ErrFailedToProcess(ext, msg) == <<"Failed to process ", ext, " file: ">> \o msg
ErrZipZero == <<"ZIP file is empty">>
ErrZipInvalid == <<"Invalid ZIP file: ", "Invalid or unsupported zip format. No END header found">>
ErrZipNoEntries == <<"ZIP file is empty or invalid">>
ErrNoFilesTranslated == <<"No files were successfully translated">>
ZipPdfPlaceholder(name) == <<"Content of PDF file ", name.dir, "/", name.base, name.ext>>
PdfPlaceholder == <<"PDF file content placeholder. Please use a proper PDF extraction library.">>

-----------------------------------------------------------------------------
(* The documents the environment uploads *)

Languages == {"es"}

Text(words) == [kind |-> "text", text |-> words]
Corrupt == [kind |-> "corrupt"]

SingleDocuments ==
    { [originalname |-> [base |-> "hello", ext |-> ".txt"], content |-> Text(<<"Hello world">>)],
      [originalname |-> [base |-> "hello", ext |-> ".TXT"], content |-> Text(<<>>)],
      [originalname |-> [base |-> "doc", ext |-> ".docx"], content |-> Text(<<"Hello world">>)],
      [originalname |-> [base |-> "doc", ext |-> ".docx"], content |-> Text(<<" ">>)],
      [originalname |-> [base |-> "doc", ext |-> ".pdf"], content |-> Corrupt],
      [originalname |-> [base |-> "notes", ext |-> ".md"], content |-> Text(<<"Hello world">>)] }

(* the entries a ZIP may hold: a directory, two text files with the same file
   name in different directories, a file of an unsupported type, a Word file
   that cannot be parsed and a blank text file *)
Entry(dir, base, ext, data) ==
    [name |-> [dir |-> dir, base |-> base, ext |-> ext], isDirectory |-> FALSE, data |-> data]

EntryUniverse ==
    { [name |-> [dir |-> "a", base |-> "", ext |-> ""], isDirectory |-> TRUE, data |-> Text(<<>>)],
      Entry("a", "x", ".txt", Text(<<"Hello">>)),
      Entry("b", "x", ".txt", Text(<<"World">>)),
      Entry("a", "n", ".md", Text(<<"Notes">>)),
      Entry("a", "d", ".docx", Corrupt),
      Entry("a", "e", ".txt", Text(<<" ">>)) }

RECURSIVE SeqsUpTo(_, _)
SeqsUpTo(S, n) ==
    IF n = 0 THEN {<<>>}
    ELSE LET shorter == SeqsUpTo(S, n - 1)
         IN shorter \cup {Append(q, e) : q \in shorter, e \in S}

Zip(entries) == [kind |-> "zip", entries |-> entries]
ZeroBytes == [kind |-> "zero"]

ZipName == [base |-> "bundle", ext |-> ".zip"]

(* the entries of an archive have distinct names *)
DistinctNames(q) == \A i, j \in 1..Len(q) : q[i].name = q[j].name => i = j

Archives ==
    {[originalname |-> ZipName, content |-> c] :
        c \in {ZeroBytes, Corrupt} \cup
              {Zip(q) : q \in {e \in SeqsUpTo(EntryUniverse, MaxEntries) : DistinctNames(e)}}}

SampleArchives ==
    { [originalname |-> ZipName, content |-> ZeroBytes],
      [originalname |-> ZipName,
       content |-> Zip(<<Entry("a", "x", ".txt", Text(<<"Hello">>)),
                         Entry("a", "d", ".docx", Corrupt)>>)] }

Documents == SingleDocuments \cup SampleArchives

-----------------------------------------------------------------------------
(* The remote translation service and translateText *)

(* what the axios call ends with: a response, an error response, no response,
   or an error raised while the request was set up *)
RemoteOutcomes == {"ok", "response", "norequest", "setup"}

(* response.data.translatedText: the remote service is opaque; its answer is a
   function of the text and the target language *)
translatedText(text, targetLanguage) == <<targetLanguage>> \o text

(* translateText throwing the same error whatever the cause *)
translateErrorOfOneKind(outcome) == <<"Translation error: ", "Request failed">>

(* the error translateText throws for a failed call *)
translateError(outcome) ==
    CASE outcome = "response" -> <<"Translation service error: ", "503", " - ", "{}">>
      [] outcome = "norequest" -> <<"Translation service unavailable - no response received">>
      [] OTHER -> <<"Translation error: ", "Request failed">>

(* the body of the axios.post of translateText *)
translateRequest(text, targetLanguage) ==
    [q |-> text, source |-> "auto", target |-> targetLanguage]

(* translateText posting whatever the text is *)
translateTextAlwaysPosting(W, text, targetLanguage) ==
    [W EXCEPT !.loc.pc = "translate", !.loc.content = text, !.loc.calls = @ + 1,
              !.loc.translations =
                  Append(@, [text |-> text, target |-> targetLanguage,
                             requests |-> <<translateRequest(text, targetLanguage)>>,
                             returned |-> <<>>])]

(* async function translateText(text, targetLanguage) up to its await: '' is
   returned for a blank text, any other text is posted to the remote service.
   The call is logged with the requests it issued and the value it returned
   without awaiting. *)
translateText(W, text, targetLanguage) ==
    IF Blank(text)
    THEN [W EXCEPT !.loc.translations =
                      Append(@, [text |-> text, target |-> targetLanguage,
                                 requests |-> <<>>, returned |-> << <<>> >>])]
    ELSE [W EXCEPT !.loc.pc = "translate", !.loc.content = text, !.loc.calls = @ + 1,
                   !.loc.translations =
                       Append(@, [text |-> text, target |-> targetLanguage,
                                  requests |-> <<translateRequest(text, targetLanguage)>>,
                                  returned |-> <<>>])]

(* translateText after its await: the translated text is returned for an
   answered request, one error is thrown for a failed one; the settled call is
   logged with the cause, the value returned and the error thrown *)
translateSettled(W, outcome) ==
    [W EXCEPT !.loc.settled =
        Append(@, [outcome |-> outcome,
                   returned |-> IF outcome = "ok"
                                THEN <<translatedText(W.loc.content, W.loc.translations[
                                           Len(W.loc.translations)].target)>>
                                ELSE <<>>,
                   raised |-> IF outcome = "ok" THEN <<>> ELSE <<translateError(outcome)>>])]

-----------------------------------------------------------------------------
(* The worker.  A turn of the handler is computed on a world W: the job map,
   the disk and the worker's locals, threaded through the statements. *)

Idle == [pc |-> "idle"]

World(unlinkOk) ==
    [fs |-> fileStatus, disk |-> disk, mtime |-> mtime, loc |-> worker,
     unlinkOk |-> unlinkOk, writes |-> <<>>]

(* no HTTP response is sent and no sweep is run *)
NoResponse == [op |-> "none", fileId |-> 0, code |-> 0, error |-> "", sent |-> <<>>]
NoCycle == [ran |-> FALSE, before |-> <<>>, threw |-> {}]

(* a turn of the worker or of Bull sends no response and runs no sweep *)
Commit(W) == /\ fileStatus' = W.fs
             /\ disk' = W.disk
             /\ mtime' = W.mtime
             /\ worker' = W.loc
             /\ statusWrites' = W.writes
             /\ response' = NoResponse
             /\ cycle' = NoCycle
             /\ client' = client

(* the status a record shows, "none" for no record *)
statusOf(fs, fileId) == IF fileId \in DOMAIN fs THEN fs[fileId].status ELSE "none"

(* fileStatus[fileId] = { ...fileStatus[fileId], ...update }, update naming a status *)
assignStatus(W, fileId, update) ==
    [W EXCEPT !.fs = Put(W.fs, fileId,
                         Merge(IF fileId \in DOMAIN W.fs THEN W.fs[fileId] ELSE <<>>, update)),
              !.writes = Append(@, [fileId |-> fileId, from |-> statusOf(W.fs, fileId),
                                    to |-> update.status])]

(* function updateFileStatus(fileId, update); the progress values written during
   the attempt are logged with the status the record has at the write *)
updateFileStatus(W, fileId, update) ==
    IF fileId \in DOMAIN W.fs
    THEN [W EXCEPT !.fs = Put(W.fs, fileId, Merge(W.fs[fileId], update)),
                   !.loc.log = IF "progress" \in DOMAIN update
                               THEN Append(@, [progress |-> update.progress,
                                               status |-> W.fs[fileId].status])
                               ELSE @]
    ELSE W

(* function cleanupFile(filePath): unlinkSync may throw, which is only logged.
   The call is recorded in the attempt's unlinks. *)
cleanupFile(W, filePath) ==
    LET existed == filePath \in DOMAIN W.disk
        called == [W EXCEPT !.loc.unlinks =
                      Append(@, [path |-> filePath, existed |-> existed,
                                 threw |-> existed /\ ~W.unlinkOk])]
    IN IF existed /\ W.unlinkOk
       THEN [called EXCEPT !.disk = Remove(W.disk, filePath)]
       ELSE called

(* handlerReturn with a cleanup whose error is not caught: the error of
   unlinkSync reaches the catch block of the handler *)
handlerReturnEscalating(W, translatedFilePath) ==
    LET d == W.loc.data
        W1 == assignStatus(W, d.fileId,
                           [status |-> "completed", translatedFile |-> translatedFilePath])
        W2 == cleanupFile(W1, d.filePath)
        message == <<"EPERM: operation not permitted, unlink">>
    IN IF W2.loc.unlinks[Len(W2.loc.unlinks)].threw
       THEN [assignStatus(W2, d.fileId, [status |-> "failed", error |-> message])
                EXCEPT !.loc.pc = "failed", !.loc.err = message]
       ELSE [W2 EXCEPT !.loc.pc = "completed"]

(* fileQueue.process, the statements after the branch returned: status
   completed, then the finally block *)
handlerReturn(W, translatedFilePath) ==
    LET d == W.loc.data
        W1 == assignStatus(W, d.fileId,
                           [status |-> "completed", translatedFile |-> translatedFilePath])
        W2 == cleanupFile(W1, d.filePath)
    IN [W2 EXCEPT !.loc.pc = "completed"]

(* handlerThrow without the finally block: a failed attempt keeps the source *)
handlerThrowKeeping(W, message) ==
    LET d == W.loc.data
        W1 == assignStatus(W, d.fileId, [status |-> "failed", error |-> message])
    IN [W1 EXCEPT !.loc.pc = "failed", !.loc.err = message]

(* fileQueue.process, catch and finally: status failed with error.message, the
   error is thrown again to Bull *)
handlerThrow(W, message) ==
    LET d == W.loc.data
        W1 == assignStatus(W, d.fileId, [status |-> "failed", error |-> message])
        W2 == cleanupFile(W1, d.filePath)
    IN [W2 EXCEPT !.loc.pc = "failed", !.loc.err = message]

(* processSingleFile, its catch block *)
singleCatch(W, message) ==
    LET d == W.loc.data
        W1 == updateFileStatus(W, d.fileId, [progress |-> 100, current |-> 1])
    IN handlerThrow(W1, ErrFailedToProcess(extname(d.originalname), message))

(* processSingleFile, steps 3 and 4, after translateText returned *)
singleSave(W, translatedContent) ==
    LET d == W.loc.data
        W1 == updateFileStatus(W, d.fileId, [progress |-> 75, current |-> 1])
        translatedFilePath == [dir |-> TRANSLATED_FOLDER,
                               file |-> translatedFilename(d.originalname, d.targetLanguage)]
        W2 == [W1 EXCEPT !.disk = Put(W1.disk, translatedFilePath, Text(translatedContent)),
                         !.mtime = Put(@, translatedFilePath, now)]
        W3 == updateFileStatus(W2, d.fileId, [progress |-> 100, current |-> 1])
    IN handlerReturn(W3, translatedFilePath)

(* processSingleFile, step 2: translateText answers '' for a blank text without
   a request, and posts to the remote service otherwise *)
singleTranslate(W, content) ==
    LET d == W.loc.data
        W1 == updateFileStatus(W, d.fileId, [progress |-> 50, current |-> 1])
        W2 == translateText(W1, content, d.targetLanguage)
        call == W2.loc.translations[Len(W2.loc.translations)]
    IN IF call.requests = <<>> THEN singleSave(W2, call.returned[1]) ELSE W2

(* processSingleFile up to its first await *)
singleStart(W) ==
    LET d == W.loc.data
        fileExtension == extname(d.originalname)
        W1 == updateFileStatus(W, d.fileId, [progress |-> 0, totalFiles |-> 1, current |-> 0])
        W2 == updateFileStatus(W1, d.fileId, [progress |-> 25, current |-> 1])
    IN CASE fileExtension = ".txt" ->
                IF d.filePath \in DOMAIN W2.disk
                THEN singleTranslate(W2, W2.disk[d.filePath].text)
                ELSE singleCatch(W2, ENOENT)
         [] fileExtension = ".docx" -> [W2 EXCEPT !.loc.pc = "extract"]
         [] fileExtension = ".pdf" ->
                IF d.filePath \in DOMAIN W2.disk
                THEN [W2 EXCEPT !.loc.pc = "extract", !.loc.bytes = W2.disk[d.filePath]]
                ELSE singleCatch(W2, ENOENT)
         [] OTHER -> singleCatch(W2, ErrUnsupported(fileExtension))

(* processSingleFile after mammoth.extractRawText or PDFDocument.load settled *)
singleExtracted(W) ==
    LET d == W.loc.data
        fileExtension == extname(d.originalname)
    IN IF fileExtension = ".docx"
       THEN IF d.filePath \notin DOMAIN W.disk
            THEN singleCatch(W, ENOENT)
            ELSE IF W.disk[d.filePath].kind # "text"
            THEN singleCatch(W, ErrCorrupt)
            ELSE IF Blank(W.disk[d.filePath].text)
            THEN singleCatch(W, ErrDocxEmpty)
            ELSE singleTranslate(W, W.disk[d.filePath].text)
       ELSE IF W.loc.bytes.kind # "text"
            THEN singleCatch(W, ErrCorrupt)
            ELSE singleTranslate(W, PdfPlaceholder)

(* processSingleFile after the axios call settled *)
singleTranslated(W, outcome) ==
    IF outcome = "ok"
    THEN singleSave(W, translatedText(W.loc.content, W.loc.data.targetLanguage))
    ELSE singleCatch(W, translateError(outcome))

-----------------------------------------------------------------------------
(* processZip *)

(* a loop that also attempts Markdown files *)
EligibleExtensionsWithMarkdown == {".txt", ".docx", ".pdf", ".md"}

EligibleExtensions == {".txt", ".docx", ".pdf"}

(* Math.round((processedFiles / totalFiles) * 100) *)
roundPercent(processedFiles, totalFiles) == (200 * processedFiles + totalFiles) \div (2 * totalFiles)

tempDir(fileId) == [dir |-> TEMP_FOLDER, id |-> fileId]

(* path.join(tempDir, file) *)
tempPath(fileId, file) == [dir |-> TEMP_FOLDER, id |-> fileId, file |-> file]

(* `translated_to_${targetLanguage}_${path.basename(zipPath)}` *)
translatedZipFilename(zipPath, targetLanguage) ==
    [lang |-> targetLanguage, zip |-> [stamp |-> zipPath.stamp, name |-> zipPath.name]]

(* AdmZip addLocalFile(localPath, 'translated'): the file is read when it is
   added, and an entry of the same name is replaced *)
addLocalFile(entries, localPath, data) ==
    LET entryName == [dir |-> TRANSLATED_FOLDER, file |-> localPath.file]
    IN IF \E k \in 1..Len(entries) : entries[k].entryName = entryName
       THEN [k \in 1..Len(entries) |->
                IF entries[k].entryName = entryName
                THEN [entryName |-> entryName, data |-> data] ELSE entries[k]]
       ELSE Append(entries, [entryName |-> entryName, data |-> data])

RECURSIVE packFiles(_, _, _)
packFiles(files, k, onDisk) ==
    IF k = 0 THEN <<>>
    ELSE addLocalFile(packFiles(files, k - 1, onDisk), files[k], onDisk[files[k]])

RECURSIVE cleanupFiles(_, _, _)
cleanupFiles(W, files, k) ==
    IF k = 0 THEN W ELSE cleanupFile(cleanupFiles(W, files, k - 1), files[k])

(* fs.rmdirSync(tempDir, { recursive: true }), its error only logged *)
rmdirSync(W, fileId) ==
    LET called == [W EXCEPT !.loc.unlinks =
                      Append(@, [path |-> tempDir(fileId), existed |-> TRUE,
                                 threw |-> ~W.unlinkOk])]
    IN IF W.unlinkOk
       THEN [called EXCEPT !.disk = [q \in {x \in DOMAIN W.disk :
                                          ~(x.dir = TEMP_FOLDER /\ x.id = fileId)} |-> W.disk[q]]]
       ELSE called

(* processZip after the loop: nothing translated is an error; otherwise the
   translated files are packed and the temporary files removed *)
zipFinish(W) ==
    LET d == W.loc.data
        files == W.loc.translatedFiles
    IN IF Len(files) = 0
       THEN handlerThrow(W, ErrNoFilesTranslated)
       ELSE LET translatedZipPath ==
                    [dir |-> TRANSLATED_FOLDER,
                     file |-> translatedZipFilename(d.filePath, d.targetLanguage)]
                W1 == [W EXCEPT !.disk = Put(W.disk, translatedZipPath,
                                             [kind |-> "zip",
                                              entries |-> packFiles(files, Len(files), W.disk)]),
                                !.mtime = Put(@, translatedZipPath, now)]
                W2 == cleanupFiles(W1, files, Len(files))
                W3 == rmdirSync(W2, d.fileId)
            IN handlerReturn(W3, translatedZipPath)

(* the for loop of processZip from entry loc.i on, up to the next await *)
RECURSIVE zipLoop(_)
zipLoop(W) ==
    LET d == W.loc.data
        i == W.loc.i
        next == [W EXCEPT !.loc.i = i + 1]
    IN IF i > Len(W.loc.entries) THEN zipFinish(W)
       ELSE LET entry == W.loc.entries[i]
                fileExtension == extname(entry.name)
                processedFiles == W.loc.processedFiles + 1
                W1 == updateFileStatus([W EXCEPT !.loc.processedFiles = processedFiles],
                          d.fileId,
                          [current |-> processedFiles,
                           progress |-> roundPercent(processedFiles, W.loc.totalFiles)])
                W1n == [W1 EXCEPT !.loc.i = i + 1]
                tempFilePath == tempPath(d.fileId, [base |-> entry.name.base, ext |-> entry.name.ext])
                written == [W1 EXCEPT !.disk = Put(W1.disk, tempFilePath, entry.data)]
            IN IF entry.isDirectory THEN zipLoop(next)
               ELSE IF fileExtension \notin EligibleExtensions THEN zipLoop(next)
               ELSE IF fileExtension = ".docx"
                    THEN [written EXCEPT !.loc.pc = "extract"]
               ELSE LET content == IF fileExtension = ".txt" THEN entry.data.text
                                   ELSE ZipPdfPlaceholder(entry.name)
                        W2 == IF fileExtension = ".txt" THEN W1
                              ELSE cleanupFile(written, tempFilePath)
                    IN IF Blank(content)
                       THEN zipLoop([W2 EXCEPT !.loc.i = i + 1, !.loc.done = Put(@, i, "empty")])
                       ELSE translateText(W2, content, d.targetLanguage)

(* zipStart without the check that the archive has entries *)
zipStartUnchecked(W) ==
    LET d == W.loc.data
        zipPath == d.filePath
    IN IF zipPath \notin DOMAIN W.disk THEN handlerThrow(W, ENOENT)
       ELSE IF W.disk[zipPath].kind = "zero" THEN handlerThrow(W, ErrZipZero)
       ELSE IF W.disk[zipPath].kind # "zip" THEN handlerThrow(W, ErrZipInvalid)
       ELSE LET zipEntries == W.disk[zipPath].entries
                totalFiles == Cardinality({k \in 1..Len(zipEntries) : ~zipEntries[k].isDirectory})
                W1 == [W EXCEPT !.disk = Put(W.disk, tempDir(d.fileId), [kind |-> "dir"]),
                                !.loc.entries = zipEntries,
                                !.loc.i = 1,
                                !.loc.totalFiles = totalFiles]
                W2 == updateFileStatus(W1, d.fileId, [progress |-> 0, totalFiles |-> totalFiles])
            IN zipLoop(W2)

(* processZip up to its first await: validation, the temp directory, the loop *)
zipStart(W) ==
    LET d == W.loc.data
        zipPath == d.filePath
    IN IF zipPath \notin DOMAIN W.disk THEN handlerThrow(W, ENOENT)
       ELSE IF W.disk[zipPath].kind = "zero" THEN handlerThrow(W, ErrZipZero)
       ELSE IF W.disk[zipPath].kind # "zip" THEN handlerThrow(W, ErrZipInvalid)
       ELSE LET zipEntries == W.disk[zipPath].entries
                totalFiles == Cardinality({k \in 1..Len(zipEntries) : ~zipEntries[k].isDirectory})
                W1 == [W EXCEPT !.disk = Put(W.disk, tempDir(d.fileId), [kind |-> "dir"]),
                                !.loc.entries = zipEntries,
                                !.loc.i = 1,
                                !.loc.totalFiles = totalFiles]
                W2 == updateFileStatus(W1, d.fileId, [progress |-> 0, totalFiles |-> totalFiles])
            IN IF Len(zipEntries) = 0 THEN handlerThrow(W, ErrZipNoEntries)
               ELSE zipLoop(W2)

(* processZip after mammoth.extractRawText settled for a Word entry *)
zipExtracted(W) ==
    LET d == W.loc.data
        entry == W.loc.entries[W.loc.i]
        tempFilePath == tempPath(d.fileId, [base |-> entry.name.base, ext |-> entry.name.ext])
        readable == tempFilePath \in DOMAIN W.disk /\ W.disk[tempFilePath].kind = "text"
        W1 == cleanupFile(W, tempFilePath)
        next == [W1 EXCEPT !.loc.i = @ + 1]
    IN IF ~readable THEN zipLoop([next EXCEPT !.loc.done = Put(@, W.loc.i, "error")])
       ELSE IF Blank(W.disk[tempFilePath].text)
       THEN zipLoop([next EXCEPT !.loc.done = Put(@, W.loc.i, "empty")])
       ELSE translateText(W1, W.disk[tempFilePath].text, d.targetLanguage)

(* zipTranslated going on two entries further: the entry after the one just
   translated is passed over *)
zipTranslatedSkippingNext(W, outcome) ==
    LET d == W.loc.data
        entry == W.loc.entries[W.loc.i]
        translatedFilePath == tempPath(d.fileId, translatedFilename(entry.name, d.targetLanguage))
        next == [W EXCEPT !.loc.i = @ + 2]
    IN IF outcome = "ok"
       THEN zipLoop([next EXCEPT
                !.disk = Put(W.disk, translatedFilePath,
                             Text(translatedText(W.loc.content, d.targetLanguage))),
                !.loc.translatedFiles = Append(@, translatedFilePath),
                !.loc.done = Put(@, W.loc.i, "translated")])
       ELSE zipLoop([next EXCEPT !.loc.done = Put(@, W.loc.i, "error")])

(* zipTranslated without the try/catch around an entry: the error of one entry
   ends the attempt *)
zipTranslatedAborting(W, outcome) ==
    LET d == W.loc.data
        entry == W.loc.entries[W.loc.i]
        translatedFilePath == tempPath(d.fileId, translatedFilename(entry.name, d.targetLanguage))
        next == [W EXCEPT !.loc.i = @ + 1]
    IN IF outcome = "ok"
       THEN zipLoop([next EXCEPT
                !.disk = Put(W.disk, translatedFilePath,
                             Text(translatedText(W.loc.content, d.targetLanguage))),
                !.loc.translatedFiles = Append(@, translatedFilePath),
                !.loc.done = Put(@, W.loc.i, "translated")])
       ELSE handlerThrow([W EXCEPT !.loc.done = Put(@, W.loc.i, "error")],
                         translateError(outcome))

(* processZip after the axios call settled for an entry: the translation is
   written to the temp directory; an error is logged and the loop goes on *)
zipTranslated(W, outcome) ==
    LET d == W.loc.data
        entry == W.loc.entries[W.loc.i]
        translatedFilePath == tempPath(d.fileId, translatedFilename(entry.name, d.targetLanguage))
        next == [W EXCEPT !.loc.i = @ + 1]
    IN IF outcome = "ok"
       THEN zipLoop([next EXCEPT
                !.disk = Put(W.disk, translatedFilePath,
                             Text(translatedText(W.loc.content, d.targetLanguage))),
                !.loc.translatedFiles = Append(@, translatedFilePath),
                !.loc.done = Put(@, W.loc.i, "translated")])
       ELSE zipLoop([next EXCEPT !.loc.done = Put(@, W.loc.i, "error")])

-----------------------------------------------------------------------------
(* The actions *)

(* the useState calls of FileTranslator: no file id, empty status, the upload
   tab; no request in flight and no poll *)
InitialClient ==
    [fileId |-> <<>>, status |-> "", error |-> "", isUploading |-> FALSE, progress |-> 0,
     activeTab |-> "upload", totalFiles |-> 0, currentFile |-> 0,
     pending |-> "none", known |-> 0, polls |-> <<>>, reset |-> "no",
     handled |-> [status |-> "", rescheduled |-> FALSE, isUploading |-> FALSE]]

InitWith(uploads) ==
    /\ now = 1
    /\ uploadsLeft = uploads
    /\ fileStatus = <<>>
    /\ disk = <<>>
    /\ jobs = <<>>
    /\ wait = <<>>
    /\ worker = Idle
    /\ statusWrites = <<>>
    /\ mtime = <<>>
    /\ response = NoResponse
    /\ cycle = NoCycle
    /\ client = InitialClient

Init == InitWith(MaxUploads)

(* the clock runs over MaxTime milliseconds at the start and after each hour
   that passed; windowEnd(t) is the last millisecond of the run t lies in *)
windowEnd(t) == ((t - 1) \div oneHourInMs) * oneHourInMs + MaxTime

(* app.post('/upload'): multer stores the file at stamp, the handler runs at t *)
UploadOf(documents) ==
    \E doc \in documents, targetLanguage \in Languages, stamp \in now..windowEnd(now) :
    \E t \in stamp..windowEnd(now) :
        LET fileId == t
            filePath == uploadPath(stamp, doc.originalname)
            data == [fileId |-> fileId, filePath |-> filePath,
                     targetLanguage |-> targetLanguage, originalname |-> doc.originalname]
        IN /\ uploadsLeft > 0
           /\ uploadsLeft' = uploadsLeft - 1
           /\ now' = t
           /\ disk' = Put(disk, filePath, doc.content)
           /\ fileStatus' = Put(fileStatus, fileId, [status |-> "queued"])
           /\ jobs' = Append(jobs, [data |-> data, attemptsMade |-> 0, state |-> "wait",
                                    started |-> 0, failedReason |-> <<>>])
           /\ wait' = Append(wait, Len(jobs) + 1)
           /\ statusWrites' = <<[fileId |-> fileId, from |-> "none", to |-> "queued"]>>
           /\ response' = NoResponse
           /\ cycle' = NoCycle
           /\ UNCHANGED <<worker, mtime, client>>

Upload == UploadOf(Documents)

(* app.post('/upload') when the promise of fileQueue.add rejects (Redis cannot
   be reached): the rejection is neither awaited nor caught, the record is
   already created and the response still says 'queued'; no job is added *)
UploadAddRejected ==
    \E doc \in Documents, targetLanguage \in Languages, stamp \in now..windowEnd(now) :
    \E t \in stamp..windowEnd(now) :
        LET fileId == t
            filePath == uploadPath(stamp, doc.originalname)
        IN /\ uploadsLeft > 0
           /\ uploadsLeft' = uploadsLeft - 1
           /\ now' = t
           /\ disk' = Put(disk, filePath, doc.content)
           /\ fileStatus' = Put(fileStatus, fileId, [status |-> "queued"])
           /\ statusWrites' = <<[fileId |-> fileId, from |-> "none", to |-> "queued"]>>
           /\ response' = NoResponse
           /\ cycle' = NoCycle
           /\ UNCHANGED <<jobs, wait, worker, mtime, client>>

(* the checks at the head of app.post('/upload'): the message of the 400
   response, or the empty string when the request passes. file is <<>> when
   the request carries no file; endsWith('.zip') compares the case as it is. *)
validZipMimeTypes ==
    {"application/zip", "application/x-zip-compressed", "application/octet-stream",
     "multipart/x-zip"}

uploadRejection(file, mimetype) ==
    IF file = <<>> THEN "No file uploaded"
    ELSE IF file[1].originalname.ext = ".zip" /\ mimetype \notin validZipMimeTypes
    THEN "Invalid ZIP file type."
    ELSE ""

(* the requests that are rejected: one without a file, and a ZIP or a file
   with a .zip name sent with a MIME type outside the list *)
RejectedMimeTypes == {"text/plain", "application/zip"}

RejectedDocuments ==
    { [originalname |-> ZipName,
       content |-> Zip(<<Entry("a", "x", ".txt", Text(<<"Hello">>))>>)],
      [originalname |-> ZipName, content |-> Text(<<"Hello world">>)] }

(* app.post('/upload') returning 400: multer has stored the file of the request
   under uploads/ before the handler runs, and the handler returns without
   removing it *)
UploadRejected ==
    \E file \in {<<>>} \cup {<<d>> : d \in RejectedDocuments},
       mimetype \in RejectedMimeTypes, stamp \in now..windowEnd(now) :
        /\ uploadsLeft > 0
        /\ uploadRejection(file, mimetype) # ""
        /\ uploadsLeft' = uploadsLeft - 1
        /\ now' = stamp
        /\ disk' = IF file = <<>> THEN disk
                   ELSE Put(disk, uploadPath(stamp, file[1].originalname), file[1].content)
        /\ response' = [op |-> "upload", fileId |-> 0, code |-> 400,
                        error |-> uploadRejection(file, mimetype), sent |-> <<>>]
        /\ statusWrites' = <<>>
        /\ cycle' = NoCycle
        /\ UNCHANGED <<fileStatus, jobs, wait, worker, mtime, client>>

(* the same handler, the upload being any ZIP of the archive universe *)
UploadArchive == UploadOf(Archives)

(* Process without the limit of one running handler: a waiting job is started
   while another attempt is still running *)
ProcessWhileBusy ==
    \E unlinkOk \in BOOLEAN :
        /\ wait # <<>>
        /\ LET j == Head(wait)
               d == jobs[j].data
               W0 == [World(unlinkOk) EXCEPT
                        !.loc = [pc |-> "start", job |-> j, data |-> d, log |-> <<>>,
                                 calls |-> 0, translations |-> <<>>, settled |-> <<>>,
                                 unlinks |-> <<>>,
                                 content |-> <<>>, bytes |-> Corrupt,
                                 err |-> <<>>, entries |-> <<>>, i |-> 0,
                                 processedFiles |-> 0, totalFiles |-> 0,
                                 translatedFiles |-> <<>>, done |-> <<>>,
                                 source |-> IF d.filePath \in DOMAIN disk
                                            THEN disk[d.filePath] ELSE [kind |-> "missing"]]]
               W1 == assignStatus(W0, d.fileId, [status |-> "processing"])
           IN /\ Commit(IF isZipFile(d.originalname) THEN zipStart(W1) ELSE singleStart(W1))
              /\ jobs' = [jobs EXCEPT ![j].state = "active", ![j].started = @ + 1]
              /\ wait' = Tail(wait)
        /\ UNCHANGED <<now, uploadsLeft>>

(* fileQueue.process(async (job) => ...): the worker takes the next waiting job
   and runs the handler up to its first await *)
Process ==
    \E unlinkOk \in BOOLEAN :
        /\ worker.pc = "idle"
        /\ wait # <<>>
        /\ LET j == Head(wait)
               d == jobs[j].data
               W0 == [World(unlinkOk) EXCEPT
                        !.loc = [pc |-> "start", job |-> j, data |-> d, log |-> <<>>,
                                 calls |-> 0, translations |-> <<>>, settled |-> <<>>,
                                 unlinks |-> <<>>,
                                 content |-> <<>>, bytes |-> Corrupt,
                                 err |-> <<>>, entries |-> <<>>, i |-> 0,
                                 processedFiles |-> 0, totalFiles |-> 0,
                                 translatedFiles |-> <<>>, done |-> <<>>,
                                 source |-> IF d.filePath \in DOMAIN disk
                                            THEN disk[d.filePath] ELSE [kind |-> "missing"]]]
               W1 == assignStatus(W0, d.fileId, [status |-> "processing"])
           IN /\ Commit(IF isZipFile(d.originalname) THEN zipStart(W1) ELSE singleStart(W1))
              /\ jobs' = [jobs EXCEPT ![j].state = "active", ![j].started = @ + 1]
              /\ wait' = Tail(wait)
        /\ UNCHANGED <<now, uploadsLeft>>

(* mammoth.extractRawText / PDFDocument.load settles *)
ExtractDone ==
    \E unlinkOk \in BOOLEAN :
        /\ worker.pc = "extract"
        /\ Commit(IF isZipFile(worker.data.originalname)
                  THEN zipExtracted(World(unlinkOk))
                  ELSE singleExtracted(World(unlinkOk)))
        /\ UNCHANGED <<now, uploadsLeft, jobs, wait>>

(* the axios.post of translateText settles *)
TranslateDone ==
    \E outcome \in RemoteOutcomes, unlinkOk \in BOOLEAN :
        /\ worker.pc = "translate"
        /\ Commit(IF isZipFile(worker.data.originalname)
                  THEN zipTranslated(translateSettled(World(unlinkOk), outcome), outcome)
                  ELSE singleTranslated(translateSettled(World(unlinkOk), outcome), outcome))
        /\ UNCHANGED <<now, uploadsLeft, jobs, wait>>

(* the remote service never answers the request in flight: axios.post is
   called without a timeout, so the promise never settles and the handler stays
   at its await *)
RemoteSilent ==
    /\ worker.pc = "translate"
    /\ worker' = [worker EXCEPT !.pc = "hung"]
    /\ statusWrites' = <<>>
    /\ response' = NoResponse
    /\ cycle' = NoCycle
    /\ UNCHANGED <<now, uploadsLeft, fileStatus, disk, jobs, wait, mtime, client>>

(* Bull, the handler resolved: removeOnComplete removes the job *)
Completed ==
    /\ worker.pc = "completed"
    /\ jobs' = [jobs EXCEPT ![worker.job].state = "completed"]
    /\ worker' = Idle
    /\ statusWrites' = <<>>
    /\ response' = NoResponse
    /\ cycle' = NoCycle
    /\ UNCHANGED <<now, uploadsLeft, fileStatus, disk, wait, mtime, client>>

(* a failure observer that records the error under a prefix of its own *)
onFailedPrefixing(W, fileId, message) ==
    IF fileId \in DOMAIN W.fs
    THEN assignStatus(W, fileId, [status |-> "failed",
                                  error |-> <<"Job failed: ">> \o message])
    ELSE W

(* fileQueue.on('failed', (job, err) => ...) *)
onFailed(W, fileId, message) ==
    IF fileId \in DOMAIN W.fs
    THEN assignStatus(W, fileId, [status |-> "failed", error |-> message])
    ELSE W

(* Failed without the attempts limit: a failed job is always queued again *)
FailedUnlimited ==
    /\ worker.pc = "failed"
    /\ LET j == worker.job
           made == jobs[j].attemptsMade + 1
       IN /\ jobs' = [jobs EXCEPT ![j].attemptsMade = made, ![j].state = "wait",
                                  ![j].failedReason = worker.err]
          /\ wait' = Append(wait, j)
          /\ Commit([onFailed(World(TRUE), worker.data.fileId, worker.err) EXCEPT !.loc = Idle])
    /\ UNCHANGED <<now, uploadsLeft>>

(* Bull, the handler rejected: the attempt is counted, the job goes back to the
   wait list while attempts are left, and 'failed' is emitted *)
Failed ==
    /\ worker.pc = "failed"
    /\ LET j == worker.job
           made == jobs[j].attemptsMade + 1
       IN /\ IF made < Attempts
             THEN /\ jobs' = [jobs EXCEPT ![j].attemptsMade = made, ![j].state = "wait",
                                          ![j].failedReason = worker.err]
                  /\ wait' = Append(wait, j)
             ELSE /\ jobs' = [jobs EXCEPT ![j].attemptsMade = made, ![j].state = "failed",
                                          ![j].failedReason = worker.err]
                  /\ wait' = wait
          /\ Commit([onFailed(World(TRUE), worker.data.fileId, worker.err) EXCEPT !.loc = Idle])
    /\ UNCHANGED <<now, uploadsLeft>>

-----------------------------------------------------------------------------
(* The download endpoint and the retention sweep *)

(* an id no upload returned *)
UnknownId == 0

(* res.download without the fs.existsSync check *)
downloadUnchecked(fs, files, fileId) ==
    IF fileId \notin DOMAIN fs
    THEN [op |-> "download", fileId |-> fileId, code |-> 404,
          error |-> "Invalid file ID", sent |-> <<>>]
    ELSE IF fs[fileId].status # "completed"
    THEN [op |-> "download", fileId |-> fileId, code |-> 400,
          error |-> "File processing not completed", sent |-> <<>>]
    ELSE [op |-> "download", fileId |-> fileId, code |-> 200, error |-> "",
          sent |-> IF fs[fileId].translatedFile \in DOMAIN files
                   THEN <<files[fs[fileId].translatedFile]>> ELSE <<>>]

(* app.get('/download/:fileId'): the response *)
download(fs, files, fileId) ==
    IF fileId \notin DOMAIN fs
    THEN [op |-> "download", fileId |-> fileId, code |-> 404,
          error |-> "Invalid file ID", sent |-> <<>>]
    ELSE IF fs[fileId].status # "completed"
    THEN [op |-> "download", fileId |-> fileId, code |-> 400,
          error |-> "File processing not completed", sent |-> <<>>]
    ELSE IF fs[fileId].translatedFile \notin DOMAIN files
    THEN [op |-> "download", fileId |-> fileId, code |-> 404,
          error |-> "Translated file not found", sent |-> <<>>]
    ELSE [op |-> "download", fileId |-> fileId, code |-> 200, error |-> "",
          sent |-> <<files[fs[fileId].translatedFile]>>]

Download ==
    \E fileId \in DOMAIN fileStatus \cup {UnknownId} :
        /\ response' = download(fileStatus, disk, fileId)
        /\ statusWrites' = <<>>
        /\ cycle' = NoCycle
        /\ UNCHANGED <<now, uploadsLeft, fileStatus, disk, jobs, wait, worker, mtime, client>>

(* a status endpoint that knows a job only once the worker has started it *)
statusOfStartedJobs(fs, fileId) ==
    IF fileId \notin DOMAIN fs \/ fs[fileId].status = "queued"
    THEN [op |-> "status", fileId |-> fileId, code |-> 404,
          error |-> "Invalid file ID", sent |-> <<>>]
    ELSE [op |-> "status", fileId |-> fileId, code |-> 200, error |-> "",
          sent |-> <<fs[fileId]>>]

(* app.get('/status/:fileId'): the response *)
status(fs, fileId) ==
    IF fileId \notin DOMAIN fs
    THEN [op |-> "status", fileId |-> fileId, code |-> 404,
          error |-> "Invalid file ID", sent |-> <<>>]
    ELSE [op |-> "status", fileId |-> fileId, code |-> 200, error |-> "",
          sent |-> <<fs[fileId]>>]

(* a status request, for an id an upload returned or for another one *)
Status ==
    \E fileId \in DOMAIN fileStatus \cup {UnknownId} \cup (1..MaxTime) :
        /\ response' = status(fileStatus, fileId)
        /\ statusWrites' = <<>>
        /\ cycle' = NoCycle
        /\ UNCHANGED <<now, uploadsLeft, fileStatus, disk, jobs, wait, worker, mtime, client>>

(* the files of the translated/ folder *)
translatedFiles(files) == {filePath \in DOMAIN files : filePath.dir = TRANSLATED_FOLDER}

(* fs.readdirSync(TRANSLATED_FOLDER): the files in some order *)
readdirSync(files) ==
    {q \in [1..Cardinality(translatedFiles(files)) -> translatedFiles(files)] :
        \A i, j \in DOMAIN q : q[i] = q[j] => i = j}

(* files.forEach of cleanupTranslatedFolder from file k on, the clock reading
   at: a file older than an hour is unlinked; an unlinkSync that throws leaves
   the forEach, the error being caught around it *)
RECURSIVE sweepFrom(_, _, _, _, _)
sweepFrom(st, files, k, at, throwing) ==
    IF k > Len(files) THEN st
    ELSE LET filePath == files[k]
         IN IF at - st.mtime[filePath] > oneHourInMs
            THEN IF filePath \in throwing THEN st
                 ELSE sweepFrom([disk |-> Remove(st.disk, filePath),
                                 mtime |-> Remove(st.mtime, filePath)],
                                files, k + 1, at, throwing)
            ELSE sweepFrom(st, files, k + 1, at, throwing)

(* the files of translated/ that are older than an hour at the time at: only
   these are unlinked, so only their unlinkSync can throw *)
oldFiles(at) == {filePath \in translatedFiles(disk) : at - mtime[filePath] > oneHourInMs}

(* the times at which the timer may run the next sweep: an hour after the
   current run of the clock *)
nextSweepTimes == (windowEnd(now) + oneHourInMs - MaxTime + 1)..(windowEnd(now) + oneHourInMs)

(* a sweep that also deletes the status records of the jobs whose artifact it
   removed *)
cleanupTranslatedFolderAndRecords ==
    \E at \in nextSweepTimes, files \in readdirSync(disk) :
    \E throwing \in SUBSET oldFiles(at) :
        LET st == sweepFrom([disk |-> disk, mtime |-> mtime], files, 1, at, throwing)
        IN /\ at <= MaxHours * oneHourInMs + MaxTime
           /\ now' = at
           /\ disk' = st.disk
           /\ mtime' = st.mtime
           /\ fileStatus' = [id \in {i \in DOMAIN fileStatus :
                                       ~(/\ "translatedFile" \in DOMAIN fileStatus[i]
                                         /\ fileStatus[i].translatedFile \in DOMAIN disk
                                         /\ fileStatus[i].translatedFile \notin DOMAIN st.disk)}
                                |-> fileStatus[id]]
           /\ cycle' = [ran |-> TRUE, before |-> mtime, threw |-> throwing]
           /\ statusWrites' = <<>>
           /\ response' = NoResponse
           /\ UNCHANGED <<uploadsLeft, jobs, wait, worker, client>>

(* function cleanupTranslatedFolder(), run by setInterval(..., 60 * 60 * 1000):
   the timer fires an hour after the start or after the last sweep *)
cleanupTranslatedFolder ==
    \E at \in nextSweepTimes, files \in readdirSync(disk) :
    \E throwing \in SUBSET oldFiles(at) :
        LET st == sweepFrom([disk |-> disk, mtime |-> mtime], files, 1, at, throwing)
        IN /\ at <= MaxHours * oneHourInMs + MaxTime
           /\ now' = at
           /\ disk' = st.disk
           /\ mtime' = st.mtime
           /\ cycle' = [ran |-> TRUE, before |-> mtime, threw |-> throwing]
           /\ statusWrites' = <<>>
           /\ response' = NoResponse
           /\ UNCHANGED <<uploadsLeft, fileStatus, jobs, wait, worker, client>>

-----------------------------------------------------------------------------
(* The web client (src/app/page.tsx).  The user picks a file and a language
   before submitting; the server handles the upload request between
   handleSubmit and the arrival of its response. *)

(* a client event changes nothing on the server *)
ServerUnchanged ==
    /\ statusWrites' = <<>>
    /\ response' = NoResponse
    /\ cycle' = NoCycle
    /\ UNCHANGED <<now, uploadsLeft, fileStatus, disk, jobs, wait, worker, mtime>>

(* the sequence q without its k-th element *)
RemoveAt(q, k) == SubSeq(q, 1, k - 1) \o SubSeq(q, k + 1, Len(q))

(* handleSubmit up to 'await fetch(.../upload)': the submit button is enabled
   while isUploading is false *)
handleSubmit ==
    /\ ~client.isUploading
    /\ client.pending = "none"
    /\ uploadsLeft > 0
    /\ client' = [client EXCEPT !.isUploading = TRUE, !.error = "", !.activeTab = "status",
                                !.pending = "upload", !.reset = "no"]
    /\ ServerUnchanged

(* handleSubmit after the upload was answered: the file id and the status of
   the response are stored and checkStatus(fileId) is called, which sends its
   first request *)
uploadResponded ==
    /\ client.pending = "upload"
    /\ Len(jobs) > client.known
    /\ LET fileId == jobs[Len(jobs)].data.fileId
       IN client' = [client EXCEPT !.pending = "none", !.known = Len(jobs), !.progress = 100,
                                   !.fileId = <<fileId>>, !.status = "queued",
                                   !.polls = Append(@, [id |-> fileId, at |-> "fetch"])]
    /\ ServerUnchanged

(* setTimeout(() => checkStatus(id), 5000) fires: the next request is sent *)
pollTimerFires ==
    \E k \in 1..Len(client.polls) :
        /\ client.polls[k].at = "timer"
        /\ client' = [client EXCEPT !.polls[k].at = "fetch"]
        /\ ServerUnchanged

(* checkStatus after its fetch was answered: the fields of the response are
   stored in the form; on 'completed' isUploading is cleared, on any other
   status a timer for the next call is set; an answer that is not ok sets the
   error and clears isUploading *)
checkStatus ==
    \E k \in 1..Len(client.polls) :
        /\ client.polls[k].at = "fetch"
        /\ LET answer == status(fileStatus, client.polls[k].id)
           IN IF answer.code # 200
              THEN client' = [client EXCEPT !.error = "Status check error", !.isUploading = FALSE,
                                            !.polls = RemoveAt(@, k)]
              ELSE LET r == answer.sent[1]
                       ends == r.status = "completed"
                   IN client' =
                        [client EXCEPT
                            !.status = r.status,
                            !.progress = IF "progress" \in DOMAIN r THEN r.progress ELSE 0,
                            !.totalFiles = IF "totalFiles" \in DOMAIN r THEN r.totalFiles ELSE 0,
                            !.currentFile = IF "current" \in DOMAIN r THEN r.current ELSE 0,
                            !.isUploading = IF ends THEN FALSE ELSE @,
                            !.polls = IF ends THEN RemoveAt(@, k)
                                      ELSE [@ EXCEPT ![k].at = "timer"],
                            !.handled = [status |-> r.status, rescheduled |-> ~ends,
                                         isUploading |-> IF ends THEN FALSE
                                                         ELSE client.isUploading]]
        /\ ServerUnchanged

(* resetForm: every field of the form is set back; the timers and the requests
   in flight are left alone.  reset records whether the upload request was
   still in flight *)
resetForm ==
    /\ client' = [client EXCEPT !.fileId = <<>>, !.status = "", !.error = "",
                                !.isUploading = FALSE, !.progress = 0, !.activeTab = "upload",
                                !.totalFiles = 0, !.currentFile = 0,
                                !.reset = IF client.pending = "upload" THEN "uploading"
                                          ELSE "idle"]
    /\ ServerUnchanged

-----------------------------------------------------------------------------
(* The specifications *)

Next == \/ Upload
        \/ Process
        \/ ExtractDone
        \/ TranslateDone
        \/ Completed
        \/ Failed

Spec == Init /\ [][Next]_vars

(* One upload alone: no second job shares its fileId, path or result name *)
InitSingle == InitWith(1)

SpecSingle == InitSingle /\ [][Next]_vars

(* One archive job alone, over every archive of the universe *)
InitArchive == InitWith(1)

NextArchive == \/ UploadArchive
               \/ Process
               \/ ExtractDone
               \/ TranslateDone
               \/ Completed
               \/ Failed

SpecArchive == InitArchive /\ [][NextArchive]_vars

(* The service over more than an hour: two uploads, status requests, downloads
   and the sweep.
   The documents are blank text files, which complete without a call of the
   remote service, and a Word file without text, which fails after its
   extraction: no request is in flight, so TranslateDone is never enabled. *)
RetentionDocuments ==
    { [originalname |-> [base |-> "hello", ext |-> ".TXT"], content |-> Text(<<>>)],
      [originalname |-> [base |-> "empty", ext |-> ".txt"], content |-> Text(<<" ">>)],
      [originalname |-> [base |-> "doc", ext |-> ".docx"], content |-> Text(<<" ">>)] }

UploadRetention == UploadOf(RetentionDocuments)

InitRetention == InitWith(2)

NextRetention == \/ UploadRetention
                 \/ Process
                 \/ ExtractDone
                 \/ Completed
                 \/ Failed
                 \/ Download
                 \/ Status
                 \/ cleanupTranslatedFolder

(* Progress: one upload; the event loop runs every turn that is ready, local
   promises (mammoth, pdf-lib) settle, Bull hands a waiting job to the idle
   worker, and a request the remote service answers is answered.  Nothing
   obliges the remote service to answer nor Redis to accept a job. *)
InitLive == InitWith(1)

NextLive == \/ Upload
            \/ UploadAddRejected
            \/ Process
            \/ ExtractDone
            \/ TranslateDone
            \/ RemoteSilent
            \/ Completed
            \/ Failed

(* Weak fairness of the three turns of the handler, written with the condition
   that enables the turn: Process is enabled exactly when the worker is idle
   and a job waits, ExtractDone and TranslateDone exactly when the handler is at
   that await, and a turn cannot be repeated forever without leaving its
   condition (an attempt has finitely many entries). *)
HandlerFairness ==
    /\ []<>~(worker.pc = "idle" /\ wait # <<>>)
    /\ []<>(worker.pc # "extract")
    /\ []<>(worker.pc # "translate")

Fairness == /\ HandlerFairness
            /\ WF_vars(Completed)
            /\ WF_vars(Failed)

SpecLive == InitLive /\ [][NextLive]_vars /\ Fairness

SpecRetention == InitRetention /\ [][NextRetention]_vars

(* Two jobs and a remote service that may never answer: the documents are a
   text file, whose translation is requested, and a blank text file, which
   needs no request.  The fairness is that of SpecLive. *)
BlockingDocuments ==
    { [originalname |-> [base |-> "hello", ext |-> ".txt"], content |-> Text(<<"Hello world">>)],
      [originalname |-> [base |-> "hello", ext |-> ".TXT"], content |-> Text(<<>>)] }

UploadBlocking == UploadOf(BlockingDocuments)

InitBlocked == InitWith(2)

NextBlocked == \/ UploadBlocking
               \/ Process
               \/ TranslateDone
               \/ RemoteSilent
               \/ Completed
               \/ Failed

SpecBlocked == InitBlocked /\ [][NextBlocked]_vars /\ Fairness

(* Two jobs whose attempts end in their first turn: a blank text file, a file
   of an unsupported type, and archives without an entry that is translated:
   an unsupported file, a directory, a blank text file. *)
CounterDocuments ==
    { [originalname |-> [base |-> "hello", ext |-> ".TXT"], content |-> Text(<<>>)],
      [originalname |-> [base |-> "notes", ext |-> ".md"], content |-> Text(<<"Hello world">>)],
      [originalname |-> ZipName,
       content |-> Zip(<<Entry("a", "n", ".md", Text(<<"Notes">>))>>)],
      [originalname |-> ZipName,
       content |-> Zip(<<[name |-> [dir |-> "a", base |-> "", ext |-> ""],
                          isDirectory |-> TRUE, data |-> Text(<<>>)]>>)],
      [originalname |-> ZipName,
       content |-> Zip(<<Entry("a", "e", ".txt", Text(<<" ">>)),
                         Entry("a", "n", ".md", Text(<<"Notes">>))>>)] }

UploadCounters == UploadOf(CounterDocuments)

InitCounters == InitWith(2)

NextCounters == \/ UploadCounters
                \/ Process
                \/ Completed
                \/ Failed

SpecCounters == InitCounters /\ [][NextCounters]_vars

(* Uploads that are rejected next to uploads that are accepted and worked. *)
InitRejected == InitWith(2)

NextRejected == \/ UploadRejected
                \/ UploadCounters
                \/ Process
                \/ Completed
                \/ Failed

SpecRejected == InitRejected /\ [][NextRejected]_vars

(* The web client and the server: the client submits a blank text file, which
   completes, or a file of an unsupported type, which fails; the server handles
   an upload only when the client has sent one. *)
ClientDocuments ==
    { [originalname |-> [base |-> "hello", ext |-> ".TXT"], content |-> Text(<<>>)],
      [originalname |-> [base |-> "notes", ext |-> ".md"], content |-> Text(<<"Hello world">>)] }

UploadFromClient ==
    /\ client.pending = "upload"
    /\ Len(jobs) = client.known
    /\ UploadOf(ClientDocuments)

InitClient == InitWith(2)

NextClient == \/ handleSubmit
              \/ UploadFromClient
              \/ uploadResponded
              \/ pollTimerFires
              \/ checkStatus
              \/ resetForm
              \/ Process
              \/ Completed
              \/ Failed

SpecClient == InitClient /\ [][NextClient]_vars

-----------------------------------------------------------------------------
(* Properties *)

Records == {fileStatus[id] : id \in DOMAIN fileStatus}

StatusEdges == { <<"queued", "processing">>,
                 <<"processing", "completed">>,
                 <<"processing", "failed">> }

(* C1: every change of a job's status made by the worker or by the failure
   observer follows queued->processing, processing->completed or
   processing->failed (an upload creates the record as queued); so a terminal
   status is entered once and never left. *)
C1_StatusFollowsStateMachine ==
    \A k \in 1..Len(statusWrites) :
        LET w == statusWrites[k]
        IN \/ w.from = "none" /\ w.to = "queued"
           \/ w.from = w.to
           \/ <<w.from, w.to>> \in StatusEdges

(* C2: in every state, a record has translatedFile set exactly when its status
   is completed. *)
C2_ResultPathIffCompleted ==
    \A r \in Records : ("translatedFile" \in DOMAIN r) <=> (r.status = "completed")

(* C3: in every state, a record has error set exactly when its status is
   failed; a processing or completed record carries no error. *)
C3_ErrorIffFailed ==
    \A r \in Records : ("error" \in DOMAIN r) <=> (r.status = "failed")

(* C4: between two successive status reads of a job id the progress never
   decreases, across all the attempts the queue makes. *)
C4_ProgressNeverDecreases ==
    [][\A id \in DOMAIN fileStatus :
          ("progress" \in DOMAIN fileStatus[id] /\ "progress" \in DOMAIN fileStatus'[id])
              => fileStatus'[id].progress >= fileStatus[id].progress]_vars

(* C5: a single-file attempt whose extract, translate and write steps succeed
   writes the progress values 0, 25, 50, 75, 100 in that order, each while the
   record's status is processing, and leaves the job completed with the result
   file {basename}_translated_to_{lang}{ext}, {basename} being the file name
   without its extension. *)
C5_SingleFileProgressAndName ==
    (worker.pc = "completed" /\ ~isZipFile(worker.data.originalname)) =>
        LET d == worker.data
            r == fileStatus[d.fileId]
        IN /\ worker.log = [k \in 1..5 |-> [progress |-> 25 * (k - 1), status |-> "processing"]]
           /\ r.status = "completed"
           /\ r.translatedFile.dir = TRANSLATED_FOLDER
           /\ r.translatedFile.file.stem = <<d.originalname.base>>
           /\ r.translatedFile.file.lang = d.targetLanguage
           /\ r.translatedFile.file.ext \in {d.originalname.ext, toLowerCase(d.originalname.ext)}
           /\ r.translatedFile \in DOMAIN disk

(* An archive attempt that read a ZIP with entries has ended *)
ZipAttemptEnded ==
    /\ worker.pc \in {"completed", "failed"}
    /\ isZipFile(worker.data.originalname)
    /\ worker.source.kind = "zip"
    /\ Len(worker.source.entries) > 0

EligibleEntries ==
    {i \in 1..Len(worker.entries) :
        ~worker.entries[i].isDirectory /\ extname(worker.entries[i].name) \in EligibleExtensions}

SucceededEntries == {i \in DOMAIN worker.done : worker.done[i] = "translated"}

(* the translation of entry i of the archive the worker holds *)
ExpectedOutput(i) ==
    LET entry == worker.entries[i]
    IN Text(translatedText(IF extname(entry.name) = ".pdf" THEN ZipPdfPlaceholder(entry.name)
                           ELSE entry.data.text,
                           worker.data.targetLanguage))

ResultArchive == disk[fileStatus[worker.data.fileId].translatedFile]

(* C6: an archive attempt with N eligible entries of which k fail (an entry
   without text counted as failing) completes with exactly N-k outputs, one per
   succeeding entry, when k < N, and fails with 'No files were successfully
   translated' when k = N, whatever the entries' names and directories. *)
C6_ArchiveOutputsPerEntry ==
    ZipAttemptEnded =>
        IF SucceededEntries # {}
        THEN /\ worker.pc = "completed"
             /\ Len(ResultArchive.entries) = Cardinality(SucceededEntries)
             /\ \A i \in SucceededEntries :
                    \E k \in 1..Len(ResultArchive.entries) :
                        ResultArchive.entries[k].data = ExpectedOutput(i)
        ELSE /\ worker.pc = "failed"
             /\ worker.err = ErrNoFilesTranslated

(* C7: in an archive attempt an entry's extraction or translation error does
   not stop the loop: every eligible entry is still handled, the attempt ends
   completed exactly when at least one entry was translated, and the result
   holds only outputs of translated entries. *)
C7_EntryErrorDoesNotStopLoop ==
    ZipAttemptEnded =>
        /\ \A i \in EligibleEntries : i \in DOMAIN worker.done
        /\ (worker.pc = "completed") <=> (SucceededEntries # {})
        /\ worker.pc = "completed" =>
              /\ fileStatus[worker.data.fileId].status = "completed"
              /\ Len(ResultArchive.entries) <= Cardinality(SucceededEntries)
              /\ \A k \in 1..Len(ResultArchive.entries) :
                     \E i \in SucceededEntries :
                         /\ ResultArchive.entries[k].data = ExpectedOutput(i)
                         /\ ResultArchive.entries[k].entryName.file =
                                translatedFilename(worker.entries[i].name,
                                                   worker.data.targetLanguage)

(* an entry failed and a later entry was translated, and the attempt completed *)
C7_Witness ==
    /\ ZipAttemptEnded
    /\ worker.pc = "completed"
    /\ \E i, j \in DOMAIN worker.done :
          i < j /\ worker.done[i] = "error" /\ worker.done[j] = "translated"

(* the attempt read a ZIP of zero bytes or without entries *)
EmptyArchiveAttempt ==
    /\ worker.pc # "idle"
    /\ isZipFile(worker.data.originalname)
    /\ \/ worker.source.kind = "zero"
       \/ worker.source.kind = "zip" /\ Len(worker.source.entries) = 0

(* C8: an archive attempt on a ZIP of zero bytes or with zero entries fails with
   the empty-archive error before any entry is processed, and posts nothing to
   the translation service. *)
C8_EmptyArchiveFailsAtOnce ==
    EmptyArchiveAttempt =>
        /\ worker.pc = "failed"
        /\ worker.err = IF worker.source.kind = "zero" THEN ErrZipZero ELSE ErrZipNoEntries
        /\ fileStatus[worker.data.fileId].status = "failed"
        /\ fileStatus[worker.data.fileId].error = worker.err
        /\ worker.calls = 0
        /\ worker.processedFiles = 0
        /\ worker.done = <<>>

C8_Witness ==
    /\ EmptyArchiveAttempt
    /\ worker.source.kind = "zip"
    /\ worker.pc = "failed"

(* C9: a queued job is started at most 3 times; once it failed for the third
   time it is neither waiting nor running; every attempt is handed the data the
   job was added with. *)
C9_AtMostThreeAttempts ==
    /\ \A j \in DOMAIN jobs :
          /\ jobs[j].started <= 3
          /\ jobs[j].state = "failed" =>
                /\ jobs[j].started = 3
                /\ \A k \in 1..Len(wait) : wait[k] # j
                /\ worker.pc # "idle" => worker.job # j
    /\ worker.pc # "idle" => worker.data = jobs[worker.job].data

C9_Witness ==
    \E j \in DOMAIN jobs : jobs[j].state = "failed" /\ jobs[j].started = 3

(* C10: once all attempts of a job failed, its record shows failed with the
   message of the last attempt's error, and keeps both from then on. *)
C10_FailedJobKeepsLastError ==
    \A j \in DOMAIN jobs :
        jobs[j].state = "failed" =>
            /\ fileStatus[jobs[j].data.fileId].status = "failed"
            /\ fileStatus[jobs[j].data.fileId].error = jobs[j].failedReason

(* C11: at the start of every attempt of a job, a retry included, the job's
   source upload is on disk. *)
C11_SourceExistsAtAttemptStart ==
    worker.pc # "idle" => worker.source.kind # "missing"

(* C13: two distinct accepted uploads have distinct job ids, also when they are
   accepted in the same millisecond. *)
C13_DistinctJobIds ==
    \A i, j \in DOMAIN jobs : i # j => jobs[i].data.fileId # jobs[j].data.fileId

(* C14: the attempt that completes a job writes its result to a path no other
   job wrote: the path is not on disk before the completing turn.  Stated for
   jobs whose ids differ. *)
C14_ResultPathsDisjoint ==
    [][(/\ worker.pc \notin {"idle", "completed"}
        /\ worker'.pc = "completed"
        /\ \A i, j \in DOMAIN jobs : i # j => jobs[i].data.fileId # jobs[j].data.fileId)
          => fileStatus'[worker'.data.fileId].translatedFile \notin DOMAIN disk]_vars

(* C18: translateText returns the empty string for an empty or whitespace-only
   text and posts nothing; for any other text it posts exactly one request, with
   source "auto" and the target language of the job. *)
C18_BlankTextIsNotPosted ==
    worker.pc # "idle" =>
        /\ \A k \in 1..Len(worker.translations) :
              LET call == worker.translations[k]
              IN IF Blank(call.text)
                 THEN call.requests = <<>> /\ call.returned = << <<>> >>
                 ELSE /\ call.requests = <<[q |-> call.text, source |-> "auto",
                                            target |-> worker.data.targetLanguage]>>
                      /\ call.returned = <<>>
        /\ worker.calls =
              Cardinality({k \in 1..Len(worker.translations) :
                              ~Blank(worker.translations[k].text)})

(* a blank text file was translated without a request, and the job completed *)
C18_Witness ==
    /\ worker.pc = "completed"
    /\ worker.calls = 0
    /\ Len(worker.translations) = 1
    /\ Blank(worker.translations[1].text)

(* the turn ends an attempt of the worker *)
AttemptEnds ==
    /\ worker.pc \notin {"completed", "failed"}
    /\ worker'.pc \in {"completed", "failed"}

(* the calls of cleanupFile on the source upload made by the attempt that ends *)
SourceCleanups ==
    {k \in 1..Len(worker'.unlinks) : worker'.unlinks[k].path = worker'.data.filePath}

(* C12 as stated: every attempt, succeeding or failing, calls cleanup on the
   source upload once, after which the source is not on disk (so it is not on
   disk once the job is terminal); on a source already removed the call is a
   no-op that leaves the attempt's outcome as the record's status. *)
C12_SourceRemovedAfterAttempt ==
    [][AttemptEnds =>
          /\ Cardinality(SourceCleanups) = 1
          /\ worker'.data.filePath \notin DOMAIN disk'
          /\ fileStatus'[worker'.data.fileId].status = worker'.pc
          /\ \A k \in SourceCleanups : ~worker'.unlinks[k].threw]_vars

(* C12, amended: the same, the source being off disk unless unlinkSync threw
   (the error is only logged and the file stays). *)
C12_SourceRemovedUnlessUnlinkThrows ==
    [][AttemptEnds =>
          /\ Cardinality(SourceCleanups) = 1
          /\ fileStatus'[worker'.data.fileId].status = worker'.pc
          /\ \A k \in SourceCleanups :
                LET call == worker'.unlinks[k]
                IN /\ call.threw => call.existed /\ worker'.data.filePath \in DOMAIN disk'
                   /\ ~call.threw => worker'.data.filePath \notin DOMAIN disk']_vars

(* the third attempt of a job has ended, its source removed by an earlier one *)
C12_Witness ==
    /\ worker.pc = "failed"
    /\ jobs[worker.job].started = 3
    /\ worker.source.kind = "missing"
    /\ \E k \in 1..Len(worker.unlinks) :
          worker.unlinks[k].path = worker.data.filePath /\ ~worker.unlinks[k].existed

(* C15: a retention sweep changes no status record: a completed job whose
   artifact the sweep deleted is still completed with the same result path,
   and a download of it answers 404 'Translated file not found'. *)
C15_SweepLeavesRecords ==
    [][cycle'.ran =>
          /\ fileStatus' = fileStatus
          /\ \A id \in DOMAIN fileStatus :
                (/\ fileStatus[id].status = "completed"
                 /\ fileStatus[id].translatedFile \in DOMAIN disk
                 /\ fileStatus[id].translatedFile \notin DOMAIN disk')
                    => /\ fileStatus'[id].status = "completed"
                       /\ fileStatus'[id].translatedFile = fileStatus[id].translatedFile
                       /\ download(fileStatus', disk', id).code = 404
                       /\ download(fileStatus', disk', id).error = "Translated file not found"]_vars

(* a sweep has just deleted the artifact of a completed job *)
C15_Witness ==
    /\ cycle.ran
    /\ \E id \in DOMAIN fileStatus :
          /\ fileStatus[id].status = "completed"
          /\ fileStatus[id].translatedFile \in DOMAIN cycle.before
          /\ fileStatus[id].translatedFile \notin DOMAIN disk

(* C16: when a sweep cycle has ended, every artifact that was older than one
   hour is deleted, also when the removal of another artifact threw (only the
   artifact whose own removal threw may stay), and no artifact within the hour
   is deleted.  Stated for jobs whose ids differ. *)
C16_SweepDeletesExactlyTheOld ==
    (/\ cycle.ran
     /\ \A i, j \in DOMAIN jobs : i # j => jobs[i].data.fileId # jobs[j].data.fileId) =>
        \A f \in DOMAIN cycle.before :
            /\ (now - cycle.before[f] > oneHourInMs /\ f \notin cycle.threw)
                  => f \notin DOMAIN disk
            /\ (now - cycle.before[f] <= oneHourInMs) => f \in DOMAIN disk

(* C17: a download answers 404 for an unknown id, 400 for a job that is not
   completed, 404 for a completed job whose artifact is not on disk, and serves
   the artifact otherwise; it changes no job record. *)
C17_DownloadAnswers ==
    [][response'.op = "download" =>
          /\ fileStatus' = fileStatus
          /\ LET id == response'.fileId
                 known == id \in DOMAIN fileStatus
                 done == known /\ fileStatus[id].status = "completed"
                 there == done /\ fileStatus[id].translatedFile \in DOMAIN disk
             IN /\ ~known => response'.code = 404 /\ response'.sent = <<>>
                /\ (known /\ ~done) => response'.code = 400 /\ response'.sent = <<>>
                /\ (done /\ ~there) => response'.code = 404 /\ response'.sent = <<>>
                /\ there => /\ response'.code = 200
                            /\ response'.sent = <<disk[fileStatus[id].translatedFile]>>]_vars

(* a download of a completed job whose artifact was swept was answered *)
C17_Witness ==
    /\ response.op = "download"
    /\ response.fileId \in DOMAIN fileStatus
    /\ fileStatus[response.fileId].status = "completed"
    /\ fileStatus[response.fileId].translatedFile \notin DOMAIN disk
    /\ response.code = 404

(* C19: every attempt the worker starts eventually ends, the job's record
   showing completed or failed, also when the remote service never answers. *)
C19_AttemptEventuallyEnds ==
    (worker.pc # "idle") ~>
        (/\ worker.pc \in {"completed", "failed"}
         /\ fileStatus[worker.data.fileId].status \in {"completed", "failed"})

(* C20: every job recorded as queued eventually leaves that status, being
   handed to the worker, also when the enqueue call of the upload handler
   fails. *)
C20_QueuedJobIsDelivered ==
    \A id \in 1..MaxTime :
        (id \in DOMAIN fileStatus /\ fileStatus[id].status = "queued")
            ~> (id \in DOMAIN fileStatus /\ fileStatus[id].status # "queued")

(* C21: at most one attempt is in progress at any moment, and so at most one
   for a job id: the only active job is the one the worker holds, an active job
   does not wait for a retry at the same time, and no job waits twice. *)
C21_OneAttemptAtATime ==
    /\ \A j \in DOMAIN jobs :
          jobs[j].state = "active" <=> (worker.pc # "idle" /\ worker.job = j)
    /\ \A k \in 1..Len(wait) : jobs[wait[k]].state = "wait"
    /\ \A k, l \in 1..Len(wait) : wait[k] = wait[l] => k = l
    /\ \A i, j \in DOMAIN jobs :
          (/\ jobs[i].data.fileId = jobs[j].data.fileId
           /\ jobs[i].state = "active" /\ jobs[j].state = "active") => i = j

(* an attempt runs for a job id while another job of the same id, which has
   failed once, waits for its retry *)
C21_Witness ==
    \E i, j \in DOMAIN jobs :
        /\ i # j
        /\ jobs[i].data.fileId = jobs[j].data.fileId
        /\ jobs[i].state = "active"
        /\ jobs[j].state = "wait"
        /\ jobs[j].attemptsMade >= 1

(* the ids the uploads returned to their clients *)
ReturnedIds == {jobs[j].data.fileId : j \in DOMAIN jobs}

(* C22: once an upload returned a fileId, a status request for it is answered
   with the job's record, which the upload created as queued, and never with
   404, whatever was done in between; a status request for an id no upload
   returned is answered 404.  A status request changes no record. *)
C22_StatusKnowsEveryUpload ==
    [][/\ ReturnedIds \subseteq DOMAIN fileStatus
       /\ DOMAIN fileStatus \subseteq ReturnedIds
       /\ \A j \in DOMAIN jobs' \ DOMAIN jobs :
             /\ jobs'[j].data.fileId \in DOMAIN fileStatus'
             /\ fileStatus'[jobs'[j].data.fileId] = [status |-> "queued"]
       /\ response'.op = "status" =>
             /\ fileStatus' = fileStatus
             /\ IF response'.fileId \in ReturnedIds
                THEN /\ response'.code = 200
                     /\ response'.sent = <<fileStatus[response'.fileId]>>
                ELSE /\ response'.code = 404
                     /\ response'.error = "Invalid file ID"
                     /\ response'.sent = <<>>]_vars

(* the status of a job was asked after a sweep deleted its artifact, and the
   record was returned *)
C22_Witness ==
    /\ response.op = "status"
    /\ response.code = 200
    /\ response.fileId \in ReturnedIds
    /\ response.sent[1].status = "completed"
    /\ response.sent[1].translatedFile \notin DOMAIN disk

(* the attempt read a ZIP that has entries, all of them directories *)
DirectoryOnlyAttempt ==
    /\ worker.pc # "idle"
    /\ isZipFile(worker.data.originalname)
    /\ worker.source.kind = "zip"
    /\ Len(worker.source.entries) > 0
    /\ \A i \in 1..Len(worker.source.entries) : worker.source.entries[i].isDirectory

(* C23: an archive attempt on a ZIP that holds only directory entries fails
   with the empty-archive error at validation, as on a ZIP without entries, and
   not with 'No files were successfully translated'. *)
C23_DirectoryOnlyArchiveIsEmpty ==
    DirectoryOnlyAttempt =>
        /\ worker.pc = "failed"
        /\ worker.err = ErrZipNoEntries
        /\ fileStatus[worker.data.fileId].error = ErrZipNoEntries

(* the temporary directory of a job and the files in it that are on disk *)
TempFilesOf(fileId) == {q \in DOMAIN disk : q.dir = TEMP_FOLDER /\ q.id = fileId}

(* C24: when an archive attempt has ended, completed or failed, the job's
   temporary directory and the intermediate files of its entries are no longer
   on disk.  Stated for attempts on an archive that holds a file and in which
   no removal threw. *)
C24_TempRemovedAtAttemptEnd ==
    (/\ worker.pc \in {"completed", "failed"}
     /\ isZipFile(worker.data.originalname)
     /\ worker.source.kind = "zip"
     /\ \E i \in 1..Len(worker.source.entries) : ~worker.source.entries[i].isDirectory
     /\ \A k \in 1..Len(worker.unlinks) : ~worker.unlinks[k].threw)
        => TempFilesOf(worker.data.fileId) = {}

(* the extract, translate and write steps of the attempt that ended succeeded:
   for a single file, the source was a readable file of a supported type with
   the text its type needs and every request was answered; for an archive, an
   entry was extracted, translated and written *)
StepsSucceeded ==
    IF isZipFile(worker.data.originalname)
    THEN \E i \in DOMAIN worker.done : worker.done[i] = "translated"
    ELSE /\ extname(worker.data.originalname) \in {".txt", ".docx", ".pdf"}
         /\ worker.source.kind = "text"
         /\ extname(worker.data.originalname) = ".docx" => ~Blank(worker.source.text)
         /\ \A k \in 1..Len(worker.settled) : worker.settled[k].outcome = "ok"

(* the errors the steps of an attempt raise *)
StepErrors ==
    LET ext == extname(worker.data.originalname)
    IN {ENOENT, ErrZipZero, ErrZipInvalid, ErrZipNoEntries, ErrNoFilesTranslated}
       \cup {ErrFailedToProcess(ext, m) :
                m \in {ENOENT, ErrCorrupt, ErrDocxEmpty, ErrUnsupported(ext)}
                      \cup {translateError(o) : o \in RemoteOutcomes \ {"ok"}}}

(* C25: a removal that fails (of the source upload, of an intermediate file, of
   the temporary directory) does not change the outcome of the attempt: an
   attempt whose steps succeeded ends completed also when removals threw, and
   a failed attempt shows the error its failing step raised. *)
C25_RemovalFailureKeepsOutcome ==
    worker.pc \in {"completed", "failed"} =>
        /\ StepsSucceeded => worker.pc = "completed"
        /\ worker.pc = "failed" =>
              /\ worker.err \in StepErrors
              /\ ~StepsSucceeded

(* an archive attempt completed although every removal it made threw: of an
   intermediate file, of the temporary directory and of the source upload *)
C25_Witness ==
    /\ worker.pc = "completed"
    /\ isZipFile(worker.data.originalname)
    /\ Len(worker.unlinks) >= 3
    /\ \A k \in 1..Len(worker.unlinks) : worker.unlinks[k].threw
    /\ fileStatus[worker.data.fileId].status = "completed"

(* C26: a job that waits while the attempt of another job is blocked on a
   request the remote service never answers is still taken and reaches a
   terminal state. *)
C26_BlockedJobDoesNotBlockOthers ==
    \A b \in 1..MaxUploads :
        (/\ b \in DOMAIN jobs
         /\ jobs[b].state = "wait"
         /\ worker.pc = "hung"
         /\ worker.job # b)
            ~> (b \in DOMAIN jobs /\ jobs[b].state \in {"completed", "failed"})

(* the calls of translateText that posted a request *)
PostedCalls == {k \in 1..Len(worker.translations) : worker.translations[k].requests # <<>>}

(* C27: a call of translateText whose request fails throws one error, of the
   kind of the cause: the service error with the status code and the body for
   an error response, the unavailable error when no response was received, the
   request error otherwise; the call issued one request and issues no other.
   In a single-file attempt the error ends the attempt after that one request. *)
C27_OneErrorPerFailedCall ==
    worker.pc # "idle" =>
        /\ \A k \in 1..Len(worker.settled) :
              LET call == worker.settled[k]
              IN /\ call.outcome = "ok" => call.raised = <<>> /\ Len(call.returned) = 1
                 /\ call.outcome = "response" =>
                       /\ call.raised = << <<"Translation service error: ", "503", " - ", "{}">> >>
                       /\ call.returned = <<>>
                 /\ call.outcome = "norequest" =>
                       /\ call.raised =
                             << <<"Translation service unavailable - no response received">> >>
                       /\ call.returned = <<>>
                 /\ call.outcome = "setup" =>
                       /\ call.raised = << <<"Translation error: ", "Request failed">> >>
                       /\ call.returned = <<>>
        /\ \A k \in PostedCalls : Len(worker.translations[k].requests) = 1
        /\ worker.calls = Cardinality(PostedCalls)
        /\ Len(worker.settled) <= worker.calls
        /\ worker.calls <= Len(worker.settled) + 1
        /\ (/\ ~isZipFile(worker.data.originalname)
            /\ worker.settled # <<>>
            /\ worker.settled[1].outcome # "ok") =>
                /\ worker.pc = "failed"
                /\ worker.calls = 1
                /\ worker.err = ErrFailedToProcess(extname(worker.data.originalname),
                                                   worker.settled[1].raised[1])

(* the request of a single-file attempt was answered with an error response:
   the attempt failed after one request *)
C27_Witness ==
    /\ worker.pc = "failed"
    /\ ~isZipFile(worker.data.originalname)
    /\ Len(worker.settled) = 1
    /\ worker.settled[1].outcome = "response"
    /\ worker.calls = 1

(* the file entries of the archive whose extension is txt, docx or pdf, and
   the other file entries *)
SupportedEntries ==
    {i \in 1..Len(worker.entries) :
        ~worker.entries[i].isDirectory
        /\ toLowerCase(worker.entries[i].name.ext) \in {".txt", ".docx", ".pdf"}}

UnsupportedEntries ==
    {i \in 1..Len(worker.entries) :
        ~worker.entries[i].isDirectory /\ i \notin SupportedEntries}

(* C28: in an archive attempt an entry whose extension is not txt, docx or pdf
   is neither extracted nor translated, is not counted in current and is not a
   failure: the counter is the number of supported entries, and whether the
   attempt completes and what its result holds depend on the supported entries
   only. *)
C28_UnsupportedEntriesAreSkipped ==
    ZipAttemptEnded =>
        /\ \A i \in UnsupportedEntries :
              /\ i \notin DOMAIN worker.done
              /\ \A k \in 1..Len(worker.translations) :
                    worker.translations[k].text # worker.entries[i].data.text
              /\ \A q \in DOMAIN disk :
                    (q.dir = TEMP_FOLDER /\ "file" \in DOMAIN q)
                        => q.file.ext # worker.entries[i].name.ext
        /\ worker.processedFiles = Cardinality(SupportedEntries)
        /\ SupportedEntries # {} =>
              fileStatus[worker.data.fileId].current = Cardinality(SupportedEntries)
        /\ (worker.pc = "completed") <=>
              (\E i \in SupportedEntries \cap DOMAIN worker.done :
                  worker.done[i] = "translated")
        /\ worker.pc = "failed" => worker.err = ErrNoFilesTranslated
        /\ worker.pc = "completed" =>
              \A k \in 1..Len(ResultArchive.entries) :
                  \E i \in SupportedEntries \cap DOMAIN worker.done :
                      /\ worker.done[i] = "translated"
                      /\ ResultArchive.entries[k].data = ExpectedOutput(i)

(* an archive with an unsupported entry between two text entries completed
   with the counter at 2 *)
C28_Witness ==
    /\ ZipAttemptEnded
    /\ worker.pc = "completed"
    /\ \E i, j, k \in 1..Len(worker.entries) :
          /\ i < j /\ j < k
          /\ j \in UnsupportedEntries
          /\ i \in SupportedEntries /\ k \in SupportedEntries
    /\ fileStatus[worker.data.fileId].current = 2

(* C29: a record that shows progress 100 belongs to a job that is completed or
   failed (the final step of an attempt ends in the turn that writes its
   status): no entry or file of the job is being extracted or translated while
   its record shows 100. *)
C29_Progress100OnlyAtTheEnd ==
    \A id \in DOMAIN fileStatus :
        ("progress" \in DOMAIN fileStatus[id] /\ fileStatus[id].progress = 100) =>
            /\ fileStatus[id].status \in {"completed", "failed"}
            /\ ~(/\ worker.pc \in {"extract", "translate"}
                 /\ worker.data.fileId = id)

(* an archive attempt that read a ZIP with entries is running or has ended *)
ZipAttempt ==
    /\ worker.pc # "idle"
    /\ isZipFile(worker.data.originalname)
    /\ worker.source.kind = "zip"
    /\ Len(worker.source.entries) > 0

(* C30: in an archive attempt the entries are handled one after another in the
   order of the archive: while entry i is extracted or translated, the
   supported entries before i have been handled and none after i has been
   started; a request is posted only when the one before it has settled, so at
   most one request of the job is in flight. *)
C30_EntriesAreProcessedInOrder ==
    ZipAttempt =>
        /\ worker.pc \in {"extract", "translate"} =>
              /\ worker.i \in SupportedEntries
              /\ DOMAIN worker.done = {k \in SupportedEntries : k < worker.i}
        /\ worker.pc \in {"completed", "failed"} => DOMAIN worker.done = SupportedEntries
        /\ worker.calls - Len(worker.settled) = IF worker.pc = "translate" THEN 1 ELSE 0
        /\ worker.processedFiles =
              Cardinality(DOMAIN worker.done)
                  + IF worker.pc \in {"extract", "translate"} THEN 1 ELSE 0

(* the second entry of an archive is being translated, the first one having
   been translated and written *)
C30_Witness ==
    /\ ZipAttempt
    /\ worker.pc = "translate"
    /\ worker.i = 2
    /\ 1 \in DOMAIN worker.done
    /\ worker.done[1] = "translated"
    /\ worker.calls = 2
    /\ Len(worker.settled) = 1

(* C31: a turn of the attempt of a job changes the record of no other job id,
   and the record a job was created with is changed only by a turn of the
   attempt that runs this job or by the failure observer called for it. *)
C31_RecordWrittenByItsJobOnly ==
    [][/\ (worker'.pc # "idle" /\ worker' # worker) =>
              \A id \in DOMAIN fileStatus :
                  id # worker'.data.fileId => fileStatus'[id] = fileStatus[id]
       /\ \A j \in DOMAIN jobs :
              LET id == jobs[j].data.fileId
              IN fileStatus'[id] # fileStatus[id] =>
                    \/ worker'.pc # "idle" /\ worker'.job = j
                    \/ worker.pc = "failed" /\ worker.job = j /\ worker'.pc = "idle"]_vars

(* C32: the failure observer, called for a job whose attempt has set status
   failed and its error, leaves the record as it is; called twice it leaves the
   record it leaves when called once. *)
C32_FailureObserverIsIdempotent ==
    [][(worker.pc = "failed" /\ worker'.pc = "idle") =>
          LET id == worker.data.fileId
              once == onFailed(World(TRUE), id, worker.err)
              twice == onFailed(once, id, worker.err)
          IN /\ fileStatus' = once.fs
             /\ twice.fs = once.fs
             /\ (/\ fileStatus[id].status = "failed"
                 /\ fileStatus[id].error = worker.err)
                   => /\ fileStatus'[id].status = fileStatus[id].status
                      /\ fileStatus'[id].error = fileStatus[id].error
                      /\ fileStatus' = fileStatus]_vars

(* the observer has just run for a job whose record the attempt had set to
   failed *)
C32_Witness ==
    /\ worker.pc = "idle"
    /\ Len(statusWrites) = 1
    /\ statusWrites[1].from = "failed"
    /\ statusWrites[1].to = "failed"
    /\ fileStatus[statusWrites[1].fileId].status = "failed"
    /\ "error" \in DOMAIN fileStatus[statusWrites[1].fileId]

(* C33: a single-file attempt on a supported format whose extracted text is not
   empty does not complete with an empty result file.  (The remote service
   never answers a posted text with an empty one, as an identity would not.) *)
C33_NonEmptyInputNonEmptyOutput ==
    (/\ worker.pc = "completed"
     /\ ~isZipFile(worker.data.originalname)
     /\ toLowerCase(worker.data.originalname.ext) \in {".txt", ".docx", ".pdf"}
     /\ worker.source.kind = "text"
     /\ worker.source.text # <<>>
     /\ fileStatus[worker.data.fileId].translatedFile \in DOMAIN disk)
        => disk[fileStatus[worker.data.fileId].translatedFile].text # <<>>

(* C34: when a sweep has run more than an hour after a job completed, the
   job's artifact and the job's record are both gone.  Stated for a sweep in
   which no removal threw and for jobs whose ids differ. *)
C34_SweepRemovesArtifactAndRecord ==
    [][(/\ cycle'.ran
        /\ cycle'.threw = {}
        /\ \A i, j \in DOMAIN jobs : i # j => jobs[i].data.fileId # jobs[j].data.fileId) =>
          \A id \in DOMAIN fileStatus :
              (/\ fileStatus[id].status = "completed"
               /\ fileStatus[id].translatedFile \in DOMAIN mtime
               /\ now' - mtime[fileStatus[id].translatedFile] > oneHourInMs)
                  => /\ fileStatus[id].translatedFile \notin DOMAIN disk'
                     /\ id \notin DOMAIN fileStatus']_vars

(* C35: a record whose status is completed shows progress 100, for a single
   file and for an archive, also when the archive holds entries of unsupported
   types or entries that were skipped. *)
C35_CompletedShowsProgress100 ==
    \A id \in DOMAIN fileStatus :
        fileStatus[id].status = "completed" =>
            /\ "progress" \in DOMAIN fileStatus[id]
            /\ fileStatus[id].progress = 100

(* C36: a record that has counters shows 0 <= current <= totalFiles and a
   progress between 0 and 100; the attempt of a single-file job ends with
   totalFiles 1 and current 1. *)
C36_CountersStayInRange ==
    [][/\ \A id \in DOMAIN fileStatus' :
              LET r == fileStatus'[id]
              IN /\ ("current" \in DOMAIN r /\ "totalFiles" \in DOMAIN r) =>
                        0 <= r.current /\ r.current <= r.totalFiles
                 /\ "progress" \in DOMAIN r => r.progress \in 0..100
       /\ (AttemptEnds /\ ~isZipFile(worker'.data.originalname)) =>
              LET r == fileStatus'[worker'.data.fileId]
              IN /\ "totalFiles" \in DOMAIN r /\ r.totalFiles = 1
                 /\ "current" \in DOMAIN r /\ r.current = 1]_vars

(* C37: when checkStatus has handled a status response that reports completed
   or failed, it has set no timer for another poll and the client is no longer
   uploading. *)
C37_PollingStopsAtTerminalStatus ==
    client.handled.status \in {"completed", "failed"} =>
        /\ ~client.handled.rescheduled
        /\ ~client.handled.isUploading

(* C38: after resetForm, made when no upload request was in flight, the form
   stays reset until the next submit: empty status, progress 0, no file id, the
   upload tab; a poll of the job before does not write into it. *)
C38_ResetFormStaysReset ==
    client.reset = "idle" =>
        /\ client.status = ""
        /\ client.progress = 0
        /\ client.fileId = <<>>
        /\ client.activeTab = "upload"
        /\ client.totalFiles = 0
        /\ client.currentFile = 0

(* C39: an upload request that is rejected with 400 (no file, or a .zip name
   with a MIME type outside the accepted list) leaves the system unchanged: no
   job record is created, no job is enqueued and no stored upload file stays
   on disk for it. *)
C39_RejectedUploadChangesNothing ==
    [][(response'.op = "upload" /\ response'.code = 400) =>
          /\ fileStatus' = fileStatus
          /\ jobs' = jobs
          /\ wait' = wait
          /\ disk' = disk]_vars

====
